---- MODULE Spec2Model ----
(***************************************************************************)
(* Model of src-tauri/icons/convert_to_rgba.py: a script that opens        *)
(* 'app_icon.png', converts the raster to mode RGBA when its mode is not   *)
(* 'RGBA', saves it as PNG to 'app_icon_rgba.png', prints a success line,  *)
(* reopens the destination and prints its mode and size.  One action per   *)
(* statement of the script; the file system, the console and the process   *)
(* exit status are the state.                                              *)
(***************************************************************************)
EXTENDS Integers, Sequences, FiniteSets, TLC

VARIABLES
    pc,            \* position of the script
    pilAvailable,  \* whether 'from PIL import Image' can succeed (environment)
    fs,            \* file system: path -> file
    img,           \* the script's variable img
    test_img,      \* the script's variable test_img
    exc,           \* the exception in flight, "None" when there is none
    stdout,        \* lines printed by print()
    stderr,        \* lines the interpreter writes for an uncaught exception
    exitStatus,    \* process exit status, -1 while the process runs
    steps,         \* history: the statements executed so far, in order
    io,            \* history: the files opened so far, [op, path]
    fs0            \* history: the file system when the process started

vars == <<pc, pilAvailable, fs, img, test_img, exc, stdout, stderr,
          exitStatus, steps, io, fs0>>

----------------------------------------------------------------------------
(* Bounds of the model: the source raster is at most MaxW x MaxH pixels.    *)
MaxW == 2
MaxH == 1

----------------------------------------------------------------------------
(* Paths, lines 8, 15 and 19.                                               *)
SourcePath == "app_icon.png"

SavePathOverSource == "app_icon.png"
SavePath == "app_icon_rgba.png"

Paths == {"app_icon.png", "app_icon_rgba.png"}

----------------------------------------------------------------------------
(* Files.  A PNG file holds the IHDR colour type and size, the pixel data,  *)
(* the PLTE palette and the tRNS chunk (<<>> when the chunk is absent).     *)
Absent  == [kind |-> "absent"]
Garbage == [kind |-> "garbage"]   \* exists, but is no image any plugin identifies
Partial == [kind |-> "partial"]   \* truncated by a write that failed

Png(ctype, w, h, data, plte, trns) ==
    [kind |-> "png", ctype |-> ctype, w |-> w, h |-> h,
     data |-> data, plte |-> plte, trns |-> trns]

\* The palette of the palette-indexed sources of the model.
SamplePalette == << <<255, 0, 0>>, <<0, 128, 255>> >>

\* Pixel values the sources are built from, per PNG colour type.
Samples(ctype) ==
    CASE ctype = 0 -> { <<0>>, <<200>> }
      [] ctype = 2 -> { <<255, 0, 0>>, <<0, 128, 255>> }
      [] ctype = 3 -> { <<0>>, <<1>> }
      [] ctype = 4 -> { <<0, 255>>, <<200, 64>> }
      [] ctype = 6 -> { <<255, 0, 0, 255>>, <<0, 128, 255, 64>> }

\* tRNS chunks of the sources: none, or one transparent grey level / colour /
\* an alpha table over the palette.  Colour types 4 and 6 carry no tRNS.
TrnsOptions(ctype) ==
    CASE ctype = 0 -> { <<>>, <<200>> }
      [] ctype = 2 -> { <<>>, <<255, 0, 0>> }
      [] ctype = 3 -> { <<>>, <<0, 255>> }
      [] ctype = 4 -> { <<>> }
      [] ctype = 6 -> { <<>> }

ColourTypes == {0, 2, 3, 4, 6}

ValidPngs ==
    UNION { UNION { UNION {
        { Png(c, w, h, d, IF c = 3 THEN SamplePalette ELSE <<>>, t) :
              d \in [1..(w * h) -> Samples(c)], t \in TrnsOptions(c) }
        : h \in 1..MaxH } : w \in 1..MaxW } : c \in ColourTypes }

\* What may already be at the destination when the process starts.
StalePng == Png(2, 1, 1, << <<0, 128, 255>> >>, <<>>, <<>>)

----------------------------------------------------------------------------
(* Rasters: PIL.Image objects.                                              *)
NoImage == [mode |-> "None"]

Raster(mode, size, pix, palette, transparency) ==
    [mode |-> mode, size |-> size, pix |-> pix,
     palette |-> palette, transparency |-> transparency]

\* PNG colour type <-> PIL mode (8-bit images).
ModeOfCtype(c) ==
    CASE c = 0 -> "L" [] c = 2 -> "RGB" [] c = 3 -> "P"
      [] c = 4 -> "LA" [] c = 6 -> "RGBA"

CtypeOfMode(m) ==
    CASE m = "L" -> 0 [] m = "RGB" -> 2 [] m = "P" -> 3
      [] m = "LA" -> 4 [] m = "RGBA" -> 6

\* Image.open on a PNG file: the decoded raster.
Decode(f) ==
    Raster(ModeOfCtype(f.ctype), <<f.w, f.h>>, f.data, f.plte, f.trns)

\* img.save(path, 'PNG') with alpha dropped: colour type 2, three samples a pixel.
EncodeWithoutAlpha(im) ==
    Png(2, im.size[1], im.size[2],
        [i \in 1..Len(im.pix) |-> SubSeq(im.pix[i], 1, 3)], <<>>, <<>>)

\* img.save(path, 'PNG'): the file the PNG encoder writes for a raster.
Encode(im) ==
    Png(CtypeOfMode(im.mode), im.size[1], im.size[2],
        im.pix, im.palette, im.transparency)

\* Image.open(path): identifies the file; fault is an I/O error of the
\* environment.  Returns the raster or the exception raised.
ImageOpen(f, fault) ==
    IF f.kind = "absent" THEN [ok |-> FALSE, exc |-> "FileNotFoundError", im |-> NoImage]
    ELSE IF fault THEN [ok |-> FALSE, exc |-> "OSError", im |-> NoImage]
    ELSE IF f.kind # "png" THEN [ok |-> FALSE, exc |-> "UnidentifiedImageError", im |-> NoImage]
    ELSE [ok |-> TRUE, exc |-> "None", im |-> Decode(f)]

\* Whether Image.open got as far as opening the file.
Opened(f, fault) == f.kind # "absent" /\ ~fault

----------------------------------------------------------------------------
(* Lines 11-12: the mode test and img.convert('RGBA').                      *)

\* The test as the words "already carries alpha" would have it.
NeedsConvertUnlessAlpha(im) == im.mode \notin {"RGBA", "LA"}

\* The test with only RGB sources converted.
NeedsConvertOnlyRGB(im) == im.mode = "RGB"

\* Line 11: img.mode != 'RGBA'.
NeedsConvert(im) == im.mode # "RGBA"

\* One pixel of img.convert('RGBA'): grey and palette values are expanded to
\* R, G, B; alpha is the pixel's own alpha, else 0 where the tRNS chunk makes
\* the pixel transparent, else 255.
PixelToRGBA(im, p) ==
    CASE im.mode = "RGBA" -> p
      [] im.mode = "LA"   -> <<p[1], p[1], p[1], p[2]>>
      [] im.mode = "RGB"  ->
            <<p[1], p[2], p[3], IF im.transparency = p THEN 0 ELSE 255>>
      [] im.mode = "L"    ->
            <<p[1], p[1], p[1], IF im.transparency = p THEN 0 ELSE 255>>
      [] im.mode = "P"    ->
            im.palette[p[1] + 1] \o
            << IF p[1] + 1 <= Len(im.transparency)
               THEN im.transparency[p[1] + 1] ELSE 255 >>

\* img.convert('RGBA') writing alpha 0: the channel added but never filled.
ConvertZeroAlpha(im) ==
    Raster("RGBA", im.size,
           [i \in 1..Len(im.pix) |-> SubSeq(PixelToRGBA(im, im.pix[i]), 1, 3) \o <<0>>],
           <<>>, <<>>)

\* Line 12: img.convert('RGBA').
Convert(im) ==
    Raster("RGBA", im.size,
           [i \in 1..Len(im.pix) |-> PixelToRGBA(im, im.pix[i])], <<>>, <<>>)

\* Lines 11-15 and 19 as one function of the decoded source: the raster a
\* successful run leaves decodable at the destination.
Transform(im) == Decode(Encode(IF NeedsConvert(im) THEN Convert(im) ELSE im))

----------------------------------------------------------------------------
(* Console lines.                                                           *)
Line(text, arg, size) == [text |-> text, arg |-> arg, size |-> size]

SuccessText    == "Successfully converted to RGBA format"
ModeText       == "New image mode: "
SizeText       == "New image size: "
PILMissingText == "PIL not available - please install Pillow: pip install Pillow"
ErrorText      == "Error: "

HasLine(out, text) == \E i \in 1..Len(out) : out[i].text = text

\* Python's exception classes that 'except ImportError' catches.
ImportErrors == {"ImportError", "ModuleNotFoundError"}

\* Lines 23-28 with sys.exit(1) left out of the generic handler.
HandleWithoutExit(e) ==
    IF e \in ImportErrors
    THEN [line |-> Line(PILMissingText, "", <<>>), status |-> 1]
    ELSE [line |-> Line(ErrorText, e, <<>>), status |-> 0]

\* Lines 23-28: the handler that catches e, the line it prints and the
\* status it exits with.
Handle(e) ==
    IF e \in ImportErrors
    THEN [line |-> Line(PILMissingText, "", <<>>), status |-> 1]
    ELSE [line |-> Line(ErrorText, e, <<>>), status |-> 1]

----------------------------------------------------------------------------
Init ==
    /\ pc = "import"
    /\ pilAvailable \in BOOLEAN
    /\ fs \in [Paths -> {Absent, Garbage, StalePng} \cup ValidPngs]
    /\ fs["app_icon.png"] \in {Absent, Garbage} \cup ValidPngs
    /\ fs["app_icon_rgba.png"] \in {Absent, StalePng}
    /\ img = NoImage
    /\ test_img = NoImage
    /\ exc = "None"
    /\ stdout = <<>>
    /\ stderr = <<>>
    /\ exitStatus = -1
    /\ steps = <<>>
    /\ io = <<>>
    /\ fs0 = fs

\* Line 3: 'from PIL import Image', outside the try statement.  When the
\* import fails no handler is active: the interpreter writes the traceback
\* to stderr and the process ends with status 1.
ImportPIL ==
    /\ pc = "import"
    /\ steps' = Append(steps, "import")
    /\ IF pilAvailable
       THEN /\ pc' = "open"
            /\ UNCHANGED <<stderr, exitStatus>>
       ELSE /\ pc' = "failed"
            /\ stderr' = Append(stderr, "ModuleNotFoundError")
            /\ exitStatus' = 1
    /\ UNCHANGED <<pilAvailable, fs, img, test_img, exc, stdout, io, fs0>>

\* Line 8 with the destination created before the source is opened.
OpenSourceAfterCreatingDestination ==
    /\ pc = "open"
    /\ \E fault \in BOOLEAN :
         LET r == ImageOpen(fs[SourcePath], fault) IN
         /\ steps' = Append(steps, "open")
         /\ io' = IF Opened(fs[SourcePath], fault)
                  THEN Append(io, [op |-> "read", path |-> SourcePath]) ELSE io
         /\ fs' = [fs EXCEPT ![SavePath] = Partial]
         /\ IF r.ok
            THEN /\ img' = r.im
                 /\ pc' = "test"
                 /\ exc' = exc
            ELSE /\ exc' = r.exc
                 /\ pc' = "except"
                 /\ img' = img
    /\ UNCHANGED <<pilAvailable, test_img, stdout, stderr, exitStatus, fs0>>

\* Line 8: img = Image.open('app_icon.png').
OpenSource ==
    /\ pc = "open"
    /\ \E fault \in BOOLEAN :
         LET r == ImageOpen(fs[SourcePath], fault) IN
         /\ steps' = Append(steps, "open")
         /\ io' = IF Opened(fs[SourcePath], fault)
                  THEN Append(io, [op |-> "read", path |-> SourcePath]) ELSE io
         /\ IF r.ok
            THEN /\ img' = r.im
                 /\ pc' = "test"
                 /\ exc' = exc
            ELSE /\ exc' = r.exc
                 /\ pc' = "except"
                 /\ img' = img
    /\ UNCHANGED <<pilAvailable, fs, test_img, stdout, stderr, exitStatus, fs0>>

\* Line 11: if img.mode != 'RGBA'.
TestMode ==
    /\ pc = "test"
    /\ pc' = IF NeedsConvert(img) THEN "convert" ELSE "save"
    /\ UNCHANGED <<pilAvailable, fs, img, test_img, exc, stdout, stderr,
                   exitStatus, steps, io, fs0>>

\* Line 12: img = img.convert('RGBA').  The pixel data is decoded here; a
\* failure while decoding (truncated data, I/O error) raises.
ConvertStep ==
    /\ pc = "convert"
    /\ steps' = Append(steps, "convert")
    /\ \E fault \in BOOLEAN :
         IF fault
         THEN /\ exc' = "OSError"
              /\ pc' = "except"
              /\ img' = img
         ELSE /\ img' = Convert(img)
              /\ pc' = "save"
              /\ exc' = exc
    /\ UNCHANGED <<pilAvailable, fs, test_img, stdout, stderr, exitStatus, io, fs0>>

\* Line 15: img.save('app_icon_rgba.png', 'PNG').  The file is opened for
\* writing (which truncates it) and the encoder writes into it.  The save
\* fails before the file is opened (no permission, pixel data unreadable) or
\* while writing (disk full); a failed write leaves a partial file, or no
\* file when the library removes the file it had created.
Save ==
    /\ pc = "save"
    /\ steps' = Append(steps, "save")
    /\ \/ /\ fs' = [fs EXCEPT ![SavePath] = Encode(img)]
          /\ io' = Append(io, [op |-> "write", path |-> SavePath])
          /\ pc' = "print_ok"
          /\ exc' = exc
       \/ /\ fs' = fs
          /\ io' = io
          /\ pc' = "except"
          /\ exc' = "PermissionError"
       \/ /\ \E left \in {Partial} \cup
                         (IF fs[SavePath].kind = "absent" THEN {Absent} ELSE {}) :
                fs' = [fs EXCEPT ![SavePath] = left]
          /\ io' = Append(io, [op |-> "write", path |-> SavePath])
          /\ pc' = "except"
          /\ exc' = "OSError"
    /\ UNCHANGED <<pilAvailable, img, test_img, stdout, stderr, exitStatus, fs0>>

\* Line 16: print('Successfully converted to RGBA format').
PrintSuccess ==
    /\ pc = "print_ok"
    /\ steps' = Append(steps, "print_ok")
    /\ stdout' = Append(stdout, Line(SuccessText, "", <<>>))
    /\ pc' = "reopen"
    /\ UNCHANGED <<pilAvailable, fs, img, test_img, exc, stderr, exitStatus, io, fs0>>

\* Line 19: test_img = Image.open('app_icon_rgba.png').
Reopen ==
    /\ pc = "reopen"
    /\ steps' = Append(steps, "reopen")
    /\ \E fault \in BOOLEAN :
         LET r == ImageOpen(fs[SavePath], fault) IN
         /\ io' = IF Opened(fs[SavePath], fault)
                  THEN Append(io, [op |-> "read", path |-> SavePath]) ELSE io
         /\ IF r.ok
            THEN /\ test_img' = r.im
                 /\ pc' = "report"
                 /\ exc' = exc
            ELSE /\ exc' = r.exc
                 /\ pc' = "except"
                 /\ test_img' = test_img
    /\ UNCHANGED <<pilAvailable, fs, img, stdout, stderr, exitStatus, fs0>>

\* Lines 20-21 and the end of the script: the mode and size lines are
\* printed and the process ends with status 0.
Report ==
    /\ pc = "report"
    /\ steps' = Append(steps, "report")
    /\ stdout' = stdout \o << Line(ModeText, test_img.mode, <<>>),
                              Line(SizeText, "", test_img.size) >>
    /\ exitStatus' = 0
    /\ pc' = "done"
    /\ UNCHANGED <<pilAvailable, fs, img, test_img, exc, stderr, io, fs0>>

\* Lines 23-28 resuming the script after the error is printed.
ExceptAndResume ==
    /\ pc = "except"
    /\ steps' = Append(steps, "except")
    /\ stdout' = Append(stdout, Handle(exc).line)
    /\ pc' = "reopen"
    /\ exc' = "None"
    /\ UNCHANGED <<pilAvailable, fs, img, test_img, stderr, exitStatus, io, fs0>>

\* Lines 23-28: the except clauses of the try statement; each prints one
\* line and calls sys.exit(1).
Except ==
    /\ pc = "except"
    /\ steps' = Append(steps, "except")
    /\ stdout' = Append(stdout, Handle(exc).line)
    /\ exitStatus' = Handle(exc).status
    /\ pc' = "failed"
    /\ UNCHANGED <<pilAvailable, fs, img, test_img, exc, stderr, io, fs0>>

Next ==
    \/ ImportPIL
    \/ OpenSource
    \/ TestMode
    \/ ConvertStep
    \/ Save
    \/ PrintSuccess
    \/ Reopen
    \/ Report
    \/ Except

Spec == Init /\ [][Next]_vars

\* The interpreter runs the script to its end: a statement that can run does.
FairSpec == Init /\ [][Next]_vars /\ WF_vars(Next)

----------------------------------------------------------------------------
(* Vocabulary of the properties.                                            *)
Terminal == pc \in {"done", "failed"}

SrcFile == fs0[SourcePath]
SrcImg  == Decode(fs0[SourcePath])
DstImg  == Decode(fs[SavePath])

\* The statement sequences of a run in which nothing failed.
FullRuns ==
    { <<"import", "open", "save", "print_ok", "reopen", "report">>,
      <<"import", "open", "convert", "save", "print_ok", "reopen", "report">> }

\* The conversion was selected by the test at line 11.
ConvertChosen == pc = "convert" \/ (\E i \in 1..Len(steps) : steps[i] = "convert")

\* The test at line 11 has been made on a decoded source.
ModeTested == img # NoImage /\ pc \notin {"import", "open", "test"}

\* The colour a source pixel shows, as R, G, B, read from the file.
SrcColour(f, i) ==
    CASE f.ctype = 0 -> <<f.data[i][1], f.data[i][1], f.data[i][1]>>
      [] f.ctype = 2 -> f.data[i]
      [] f.ctype = 3 -> f.plte[f.data[i][1] + 1]

WritesIn(log) == { i \in 1..Len(log) : log[i].op = "write" }

----------------------------------------------------------------------------
\* C1: in every run that ends with exit status 0, whatever the source's
\* colour mode, the destination holds a PNG whose mode is RGBA and whose
\* width and height are those of the source.
C1_OutputIsRGBA ==
    exitStatus = 0 =>
        /\ fs[SavePath].kind = "png"
        /\ DstImg.mode = "RGBA"
        /\ DstImg.size = <<SrcFile.w, SrcFile.h>>

C1_Witness ==
    /\ exitStatus = 0
    /\ SrcFile.ctype = 3
    /\ SrcFile.w = 2
    /\ DstImg.mode = "RGBA"

\* C2: when the PIL import is unavailable the run ends with exit status 1,
\* having printed the 'PIL not available - please install Pillow' line and
\* having opened no file.
C2_MissingPILReported ==
    (~pilAvailable /\ Terminal) =>
        /\ exitStatus = 1
        /\ HasLine(stdout, PILMissingText)
        /\ io = <<>>
        /\ fs = fs0

\* C3: the exit status is 0 exactly when every statement completed without
\* failure; a failure raised by open, convert, save or reopen ends the run
\* with exit status 1 and with 'Error: ' and its description as the last
\* line printed.
C3_ExitStatus ==
    /\ exitStatus = 0 <=> (steps \in FullRuns)
    /\ (Terminal /\ exc # "None") =>
           /\ exitStatus = 1
           /\ stdout # <<>>
           /\ stdout[Len(stdout)] = Line(ErrorText, exc, <<>>)

C3_Witness ==
    /\ pc = "failed"
    /\ exc = "OSError"
    /\ steps = <<"import", "open", "convert", "save", "except">>
    /\ exitStatus = 1

\* C4: when the source file does not exist the run ends with exit status 1
\* and an error printed (the 'Error: ' line, or the interpreter's traceback
\* when PIL is missing too), the destination is as it was and was never
\* opened for writing; and no run that printed the success line ends with
\* anything but a complete PNG at the destination.
C4_MissingSource ==
    /\ (SrcFile.kind = "absent" /\ Terminal) =>
           /\ exitStatus = 1
           /\ IF pilAvailable
              THEN stdout = << Line(ErrorText, "FileNotFoundError", <<>>) >>
              ELSE stderr # <<>>
           /\ fs[SavePath] = fs0[SavePath]
           /\ WritesIn(io) = {}
    /\ (Terminal /\ HasLine(stdout, SuccessText)) =>
           /\ fs[SavePath].kind = "png"
           /\ fs[SavePath] = Encode(img)

C4_Witness ==
    /\ pc = "failed"
    /\ pilAvailable
    /\ SrcFile.kind = "absent"
    /\ fs0[SavePath] = StalePng
    /\ fs[SavePath] = StalePng

\* C5 as stated: the conversion is skipped for every source whose mode
\* carries alpha (RGBA, LA) and runs only for sources without alpha.
C5_SkipIffAlpha ==
    ModeTested => (ConvertChosen <=> SrcImg.mode \notin {"RGBA", "LA"})

\* C5: the conversion is skipped exactly when the source's mode is 'RGBA',
\* and then the decoded raster reaches the save unchanged; it runs for every
\* other mode, the alpha-carrying mode LA included.
C5_SkipIffRGBA ==
    /\ ModeTested => (ConvertChosen <=> SrcImg.mode # "RGBA")
    /\ (pc = "save" /\ ~ConvertChosen) => img = SrcImg

C5_Witness ==
    /\ pc = "save"
    /\ SrcImg.mode = "LA"
    /\ ConvertChosen
    /\ img.mode = "RGBA"

\* C6 as stated: for every source without an alpha channel, after a
\* successful run each destination pixel has the source pixel's colour and
\* alpha 255.
C6_OpaqueCopy ==
    (exitStatus = 0 /\ SrcFile.ctype \in {0, 2, 3}) =>
        \A i \in 1..Len(SrcFile.data) :
            DstImg.pix[i] = SrcColour(SrcFile, i) \o <<255>>

\* C6: for every source without an alpha channel and without a tRNS chunk,
\* after a successful run each destination pixel has the source pixel's
\* colour and alpha 255.
C6_OpaqueCopyWithoutTrns ==
    (exitStatus = 0 /\ SrcFile.ctype \in {0, 2, 3} /\ SrcFile.trns = <<>>) =>
        /\ Len(DstImg.pix) = Len(SrcFile.data)
        /\ \A i \in 1..Len(SrcFile.data) :
               DstImg.pix[i] = SrcColour(SrcFile, i) \o <<255>>

C6_Witness ==
    /\ exitStatus = 0
    /\ SrcFile.ctype = 3
    /\ SrcFile.trns = <<>>
    /\ SrcFile.data = << <<1>>, <<0>> >>
    /\ DstImg.pix = << <<0, 128, 255, 255>>, <<255, 0, 0, 255>> >>

\* C7 as stated: for every source that already includes alpha (RGBA, LA) the
\* destination has the source's mode, size and pixels, and transforming the
\* destination again yields the destination.
C7_AlphaSourceUnchanged ==
    exitStatus = 0 =>
        /\ SrcFile.ctype \in {4, 6} =>
               /\ DstImg.mode = SrcImg.mode
               /\ DstImg.size = SrcImg.size
               /\ DstImg.pix = SrcImg.pix
        /\ Transform(DstImg) = DstImg

\* C7: for every source of mode RGBA the destination has the source's mode,
\* size and pixels, and for every successful run transforming the
\* destination again yields the destination.
C7_RGBASourceUnchanged ==
    exitStatus = 0 =>
        /\ SrcFile.ctype = 6 =>
               /\ DstImg.mode = SrcImg.mode
               /\ DstImg.size = SrcImg.size
               /\ DstImg.pix = SrcImg.pix
        /\ Transform(DstImg) = DstImg

C7_Witness ==
    /\ exitStatus = 0
    /\ SrcFile.ctype = 6
    /\ SrcFile.data = << <<0, 128, 255, 64>>, <<255, 0, 0, 255>> >>
    /\ DstImg.pix = SrcFile.data

\* C8: a run's standard output holds the success line or an error line,
\* never both, and the success line only in runs that end with exit
\* status 0, followed by the mode and size lines.
C8_SuccessOnlyOnExit0 ==
    (Terminal /\ HasLine(stdout, SuccessText)) =>
        /\ exitStatus = 0
        /\ ~HasLine(stdout, ErrorText)
        /\ ~HasLine(stdout, PILMissingText)
        /\ HasLine(stdout, ModeText)
        /\ HasLine(stdout, SizeText)

\* C9, every state: the statements executed so far are a run of the fixed
\* order import, open, convert, save, success line, reopen, report with
\* convert optional and none repeated, followed at most by the handler;
\* once an exception is raised only the handler runs; done goes with exit
\* status 0 and failed with exit status 1.
StepRank(s) ==
    CASE s = "import" -> 1 [] s = "open" -> 2 [] s = "convert" -> 3
      [] s = "save" -> 4 [] s = "print_ok" -> 5 [] s = "reopen" -> 6
      [] s = "report" -> 7 [] s = "except" -> 8

C9_Ordered ==
    /\ \A i \in 1..Len(steps) : \A j \in 1..Len(steps) :
           i < j => StepRank(steps[i]) < StepRank(steps[j])
    /\ \A i \in 1..Len(steps) :
           (i > 1 /\ steps[i] # "except") =>
               \/ StepRank(steps[i]) = StepRank(steps[i - 1]) + 1
               \/ steps[i] = "save" /\ steps[i - 1] = "open"
    /\ exc # "None" => pc \in {"except", "failed"}
    /\ pc = "done" <=> exitStatus = 0
    /\ pc = "failed" <=> exitStatus = 1

\* C9, every step: a terminal state is never left, and after a failure the
\* only statement that runs is the handler, which ends the run.
C9_NoRecovery ==
    /\ Terminal => UNCHANGED vars
    /\ exc # "None" => (steps' = Append(steps, "except") /\ pc' = "failed")

\* C9: every run executes its statements at most once each in the fixed
\* order, the first failure leads to the failed state with nothing retried
\* or executed after it, and every run ends in done or in failed and stays.
C9_TwoOutcomes ==
    /\ []C9_Ordered
    /\ [][C9_NoRecovery]_vars
    /\ <>[]Terminal

C9_Witness ==
    /\ pc = "failed"
    /\ steps = <<"import", "open", "convert", "save", "print_ok", "reopen", "except">>
    /\ exitStatus = 1

\* C10: in every state the source file is what it was when the process
\* started; every file opened is 'app_icon.png' for reading or
\* 'app_icon_rgba.png'; only 'app_icon_rgba.png' is opened for writing, at
\* most once, and only after 'app_icon.png' was opened and decoded.
C10_Frame ==
    /\ fs["app_icon.png"] = fs0["app_icon.png"]
    /\ \A i \in 1..Len(io) :
           \/ io[i] = [op |-> "read", path |-> "app_icon.png"]
           \/ io[i].path = "app_icon_rgba.png"
    /\ Cardinality(WritesIn(io)) <= 1
    /\ \A i \in WritesIn(io) :
           /\ i > 1
           /\ io[1] = [op |-> "read", path |-> "app_icon.png"]
           /\ img # NoImage
    /\ WritesIn(io) = {} => fs = fs0

C10_Witness ==
    /\ pc = "failed"
    /\ fs0["app_icon_rgba.png"] = StalePng
    /\ fs["app_icon_rgba.png"] = Partial
    /\ io = << [op |-> "read", path |-> "app_icon.png"],
               [op |-> "write", path |-> "app_icon_rgba.png"] >>

====
